---- MODULE Spec2Model ----
(***************************************************************************)
(* Model of signalform/util.go: the HTTP wrapper sendRequest, the four     *)
(* lifecycle functions resourceRead / resourceCreate / resourceUpdate /    *)
(* resourceDelete acting on one schema.ResourceData, and the time-range    *)
(* parser fromRangeToMilliSeconds.                                         *)
(***************************************************************************)
EXTENDS Integers, Sequences, FiniteSets, TLC

VARIABLES
  id,            \* d.Id()
  last_updated,  \* d.Get("last_updated")
  synced,        \* d.Get("synced")
  prev,          \* the three fields as they were when the current call began
  op,            \* the lifecycle function called last
  env,           \* what the network did during that call
  result,        \* what that call returned: nil, an error, or a panic
  timeRange,     \* argument of the last fromRangeToMilliSeconds call
  parsed         \* what that call returned

vars == <<id, last_updated, synced, prev, op, env, result, timeRange, parsed>>

(***************************************************************************)
(* Bounds of the model.                                                    *)
(***************************************************************************)
MaxEpoch == 1
MaxLen == 4

(***************************************************************************)
(* Constants of the program.                                               *)
(***************************************************************************)
OFFSET == 10000

\* Timestamps (epoch milliseconds) the server and the local state may hold:
\* multiples of OFFSET and their successors, so that a remote timestamp can
\* sit exactly at, just above and below local + OFFSET.
Ticks == {0, 1}
Times == {k * OFFSET + j : k \in 0..MaxEpoch, j \in Ticks}

\* Identifiers: "" is the cleared local identifier, ServerIds are the ones
\* the server assigns on creation.
ServerIds == {"a"}
Ids == {"", "a", "b"}

\* Status codes a server answers with.
StatusCodes == {200, 399, 400, 404, 500}

(***************************************************************************)
(* Response bodies.  json tells how encoding/json sees the bytes; for an   *)
(* object, idf and luf are its "id" and "lastUpdated" members; notFound    *)
(* tells whether the text holds the substring "Resource not found".        *)
(***************************************************************************)
Absent == [kind |-> "absent", str |-> "", num |-> 0]
StrVal(s) == [kind |-> "string", str |-> s, num |-> 0]
NumVal(n) == [kind |-> "number", str |-> "", num |-> n]

NilBody == [json |-> "nil", idf |-> Absent, luf |-> Absent, notFound |-> FALSE]

IdMembers == {Absent, NumVal(0)} \cup {StrVal(s) : s \in ServerIds}
LuMembers == {Absent, StrVal("a")} \cup {NumVal(t) : t \in Times}

\* Text that is no JSON, JSON that is no object, JSON null, objects without
\* either member (error messages), objects with some member missing or of the
\* wrong type, and complete resource objects.
Bodies ==
  [json : {"invalid", "nonobject"}, idf : {Absent}, luf : {Absent}, notFound : BOOLEAN]
  \cup [json : {"null"}, idf : {Absent}, luf : {Absent}, notFound : {FALSE}]
  \cup [json : {"object"}, idf : {Absent}, luf : {Absent}, notFound : BOOLEAN]
  \cup [json : {"object"}, idf : IdMembers, luf : LuMembers, notFound : {FALSE}]
  \cup [json : {"object"}, idf : {StrVal(s) : s \in ServerIds},
        luf : {NumVal(t) : t \in Times}, notFound : {TRUE}]

(***************************************************************************)
(* The network's part in one call of sendRequest.                          *)
(***************************************************************************)
Envs ==
  [urlOK : {FALSE}, send : {"fail"}, read : {"fail"}, status : {0}, body : {NilBody}]
  \cup [urlOK : {TRUE}, send : {"fail"}, read : {"fail"}, status : {0}, body : {NilBody}]
  \cup [urlOK : {TRUE}, send : {"ok"}, read : {"fail"}, status : StatusCodes, body : {NilBody}]
  \cup [urlOK : {TRUE}, send : {"ok"}, read : {"ok"}, status : StatusCodes, body : Bodies]

NoEnv == [urlOK |-> TRUE, send |-> "fail", read |-> "fail", status |-> 0, body |-> NilBody]

(***************************************************************************)
(* sendRequest.  A return value is [panic, status, body, err]; panic means *)
(* the call did not return.                                                *)
(***************************************************************************)
Methods == {"GET", "POST", "PUT", "DELETE"}

\* http.NewRequest: a nil request and an error for a method that is no
\* token or a URL that does not parse.
NewRequest(method, urlOK) ==
  IF method \in Methods /\ urlOK
    THEN [req |-> "request", err |-> FALSE]
    ELSE [req |-> "nil", err |-> TRUE]

Returned(status, body, err) ==
  [panic |-> FALSE, status |-> status, body |-> body, err |-> err]

Panicked == [panic |-> TRUE, status |-> 0, body |-> NilBody, err |-> FALSE]

sendRequest(method, e) ==
  LET nr == NewRequest(method, e.urlOK)
  IN  IF nr.req = "nil"
        THEN Panicked                          \* req.Header.Add on a nil *http.Request
      ELSE IF e.send = "fail"
        THEN Returned(-1, NilBody, TRUE)       \* client.Do failed
      ELSE IF e.read = "fail"
        THEN Returned(e.status, NilBody, TRUE) \* ioutil.ReadAll failed
      ELSE Returned(e.status, e.body, FALSE)

(***************************************************************************)
(* Helpers of the lifecycle functions.                                     *)
(***************************************************************************)
\* json.Unmarshal(resp_body, &mapped_resp) into a map[string]interface{}:
\* an error for empty input, a syntax error or a value that is no object;
\* JSON null is accepted and leaves the map empty.
Unmarshal(body) ==
  CASE body.json = "object" -> [err |-> FALSE, idf |-> body.idf, luf |-> body.luf]
    [] body.json = "null"   -> [err |-> FALSE, idf |-> Absent, luf |-> Absent]
    [] OTHER                -> [err |-> TRUE, idf |-> Absent, luf |-> Absent]

\* mapped_resp[k].(string) and mapped_resp[k].(float64) panic unless the
\* member is there and has that type.
IsString(m) == m.kind = "string"
IsFloat(m) == m.kind = "number"

\* A 2xx test in place of the comparison with 200.
IsOK_AnyBelow400(status) == status < 400

\* status_code == 200
IsOK(status) == status = 200

\* strings.Contains(string(resp_body), "Resource not found")
ContainsNotFound(body) == body.notFound

\* The boundary taken as drift.
DriftDetected_Inclusive(remote, local) == remote >= local + OFFSET

\* last_updated > (d.Get("last_updated").(float64) + OFFSET)
DriftDetected(remote, local) == remote > local + OFFSET

\* The 404 case forgotten.
DeleteSucceeds_No404(status) == status < 400

\* status_code < 400 || status_code == 404
DeleteSucceeds(status) == status < 400 \/ status = 404

D == [id |-> id, last_updated |-> last_updated, synced |-> synced]

Ret(d, res) ==
  [id |-> d.id, last_updated |-> d.last_updated, synced |-> d.synced, result |-> res]

(***************************************************************************)
(* The lifecycle functions: d is the ResourceData on entry, r what         *)
(* sendRequest gave; the value is the ResourceData on exit and the result. *)
(***************************************************************************)
\* The marker honoured on a 404 only.
resourceRead_NotFoundOn404Only(d, r) ==
  IF r.panic THEN Ret(d, "panic")
  ELSE IF IsOK(r.status) THEN
    LET u == Unmarshal(r.body)
    IN  IF u.err THEN Ret(d, "DecodeError")
        ELSE IF ~IsFloat(u.luf) THEN Ret(d, "panic")
        ELSE IF DriftDetected(u.luf.num, d.last_updated)
          THEN Ret([d EXCEPT !.synced = FALSE, !.last_updated = u.luf.num], "nil")
        ELSE Ret(d, "nil")
  ELSE IF r.status = 404 /\ ContainsNotFound(r.body) THEN Ret([d EXCEPT !.id = ""], "nil")
  ELSE Ret(d, "UpstreamError")

resourceRead(d, r) ==
  IF r.panic THEN Ret(d, "panic")
  ELSE IF IsOK(r.status) THEN
    LET u == Unmarshal(r.body)
    IN  IF u.err THEN Ret(d, "DecodeError")
        ELSE IF ~IsFloat(u.luf) THEN Ret(d, "panic")
        ELSE IF DriftDetected(u.luf.num, d.last_updated)
          THEN Ret([d EXCEPT !.synced = FALSE, !.last_updated = u.luf.num], "nil")
        ELSE Ret(d, "nil")
  ELSE IF ContainsNotFound(r.body) THEN Ret([d EXCEPT !.id = ""], "nil")
  ELSE Ret(d, "UpstreamError")

resourceCreate(d, r) ==
  IF r.panic THEN Ret(d, "panic")
  ELSE IF IsOK(r.status) THEN
    LET u == Unmarshal(r.body)
    IN  IF u.err THEN Ret(d, "DecodeError")
        ELSE IF ~IsString(u.idf) THEN Ret(d, "panic")
        ELSE LET d1 == [d EXCEPT !.id = u.idf.str]
             IN  IF ~IsFloat(u.luf) THEN Ret(d1, "panic")
                 ELSE Ret([d1 EXCEPT !.last_updated = u.luf.num, !.synced = TRUE], "nil")
  ELSE Ret(d, "UpstreamError")

\* The identifier taken from the response, as resourceCreate does.
resourceUpdate_SetsId(d, r) ==
  IF r.panic THEN Ret(d, "panic")
  ELSE IF IsOK(r.status) THEN
    LET u == Unmarshal(r.body)
    IN  IF u.err THEN Ret(d, "DecodeError")
        ELSE LET d1 == [d EXCEPT !.synced = TRUE, !.id = u.idf.str]
             IN  IF ~IsFloat(u.luf) THEN Ret(d1, "panic")
                 ELSE Ret([d1 EXCEPT !.last_updated = u.luf.num], "nil")
  ELSE Ret(d, "UpstreamError")

resourceUpdate(d, r) ==
  IF r.panic THEN Ret(d, "panic")
  ELSE IF IsOK(r.status) THEN
    LET u == Unmarshal(r.body)
    IN  IF u.err THEN Ret(d, "DecodeError")
        ELSE LET d1 == [d EXCEPT !.synced = TRUE]
             IN  IF ~IsFloat(u.luf) THEN Ret(d1, "panic")
                 ELSE Ret([d1 EXCEPT !.last_updated = u.luf.num], "nil")
  ELSE Ret(d, "UpstreamError")

resourceDelete(d, r) ==
  IF r.panic THEN Ret(d, "panic")
  ELSE IF r.err THEN Ret(d, "TransportError")
  ELSE IF DeleteSucceeds(r.status) THEN Ret([d EXCEPT !.id = ""], "nil")
  ELSE Ret(d, "UpstreamError")

(***************************************************************************)
(* One call of a lifecycle function; a panic ends the process.             *)
(***************************************************************************)
Method(o) ==
  CASE o = "Read" -> "GET" [] o = "Create" -> "POST"
    [] o = "Update" -> "PUT" [] o = "Delete" -> "DELETE"

Resp == sendRequest(Method(op), env)

Finish(o, e, n) ==
  /\ id' = n.id
  /\ last_updated' = n.last_updated
  /\ synced' = n.synced
  /\ result' = n.result
  /\ prev' = D
  /\ op' = o
  /\ env' = e
  /\ UNCHANGED <<timeRange, parsed>>

Read ==
  /\ result # "panic"
  /\ \E e \in Envs : Finish("Read", e, resourceRead(D, sendRequest("GET", e)))

Create ==
  /\ result # "panic"
  /\ \E e \in Envs : Finish("Create", e, resourceCreate(D, sendRequest("POST", e)))

Update ==
  /\ result # "panic"
  /\ \E e \in Envs : Finish("Update", e, resourceUpdate(D, sendRequest("PUT", e)))

Delete ==
  /\ result # "panic"
  /\ \E e \in Envs : Finish("Delete", e, resourceDelete(D, sendRequest("DELETE", e)))

(***************************************************************************)
(* fromRangeToMilliSeconds.  A string is a sequence of characters; a Go    *)
(* int is kept as [k, u], standing for k * 1000 + u, so that products      *)
(* beyond 2^31 are exact.                                                  *)
(***************************************************************************)
Digits == {"0", "1", "5"}
Alphabet == Digits \cup {"-", "m", "h", "d", "w", "s"}

RangeStrings == UNION {[1..n -> Alphabet] : n \in 0..MaxLen}

DigitValue(c) == CASE c = "0" -> 0 [] c = "1" -> 1 [] c = "5" -> 5

IntOf(n) == [k |-> n \div 1000, u |-> n % 1000]
MinusOne == [k |-> 0, u |-> -1]

\* The int product a * b.
Mul(a, b) ==
  LET low == a * (b % 1000)
  IN  [k |-> a * (b \div 1000) + low \div 1000, u |-> low % 1000]

\* The end of the longest run of digits of s that starts at i (i - 1 if s[i]
\* is no digit).
RECURSIVE DigitRunEnd(_, _)
DigitRunEnd(s, i) ==
  IF i <= Len(s) /\ s[i] \in Digits THEN DigitRunEnd(s, i + 1) ELSE i - 1

\* The class [mhdw] of the pattern.
PatternUnits == {"m", "h", "d", "w"}

\* Whether -([0-9]+)([mhdw]) matches s at i: [0-9]+ is greedy, and giving a
\* digit back cannot help since no digit is a unit.
MatchesAt(s, i) ==
  LET j == DigitRunEnd(s, i + 1)
  IN  /\ s[i] = "-"
      /\ j > i
      /\ j + 1 <= Len(s)
      /\ s[j + 1] \in PatternUnits

\* r.FindStringSubmatch(timeRange): nil (here << >>) without a match, else
\* the leftmost match and its two groups (ss[0], ss[1], ss[2] in Go).
FindStringSubmatch(s) ==
  LET starts == {i \in 1..Len(s) : MatchesAt(s, i)}
  IN  IF starts = {} THEN << >>
      ELSE LET i == CHOOSE x \in starts : \A y \in starts : x <= y
               j == DigitRunEnd(s, i + 1)
           IN  <<SubSeq(s, i, j + 1), SubSeq(s, i + 1, j), SubSeq(s, j + 1, j + 1)>>

\* strconv.Atoi on a string of digits: the number, or an error when it does
\* not fit an int (19 digits or more are taken not to fit).
RECURSIVE DecimalValue(_)
DecimalValue(ds) ==
  IF ds = << >> THEN 0
  ELSE 10 * DecimalValue(SubSeq(ds, 1, Len(ds) - 1)) + DigitValue(ds[Len(ds)])

Atoi(ds) ==
  IF Len(ds) >= 19 THEN [val |-> 0, err |-> TRUE]
  ELSE [val |-> DecimalValue(ds), err |-> FALSE]

\* The table with the day taken as 12 hours.
Multiplier_ShortDay(unit) ==
  CASE unit = <<"m">> -> 60 * 1000
    [] unit = <<"h">> -> 60 * 60 * 1000
    [] unit = <<"d">> -> 12 * 60 * 60 * 1000
    [] unit = <<"w">> -> 7 * 24 * 60 * 60 * 1000
    [] OTHER -> 1

\* switch ss[2]
Multiplier(unit) ==
  CASE unit = <<"m">> -> 60 * 1000
    [] unit = <<"h">> -> 60 * 60 * 1000
    [] unit = <<"d">> -> 24 * 60 * 60 * 1000
    [] unit = <<"w">> -> 7 * 24 * 60 * 60 * 1000
    [] OTHER -> 1

ParseResult(val, err, panic) ==
  [val |-> val, err |-> err, panic |-> panic, done |-> TRUE]

fromRangeToMilliSeconds(s) ==
  LET ss == FindStringSubmatch(s)
  IN  IF Len(ss) < 3
        THEN ParseResult(IntOf(0), FALSE, TRUE)      \* ss[2]: index out of range
      ELSE LET c == Multiplier(ss[3])
               a == Atoi(ss[2])
           IN  IF a.err THEN ParseResult(MinusOne, TRUE, FALSE)
               ELSE ParseResult(Mul(a.val, c), FALSE, FALSE)

NoParse == [val |-> IntOf(0), err |-> FALSE, panic |-> FALSE, done |-> FALSE]

Init ==
  /\ id \in Ids
  /\ last_updated \in Times
  /\ synced = TRUE
  /\ prev = D
  /\ op = "none"
  /\ env = NoEnv
  /\ result = "none"
  /\ timeRange = << >>
  /\ parsed = NoParse

Next == Read \/ Create \/ Update \/ Delete

Spec == Init /\ [][Next]_vars

(***************************************************************************)
(* The parser alone: one call on any string of RangeStrings.               *)
(***************************************************************************)
InitParse ==
  /\ id = ""
  /\ last_updated = 0
  /\ synced = TRUE
  /\ prev = D
  /\ op = "none"
  /\ env = NoEnv
  /\ result = "none"
  /\ timeRange \in RangeStrings
  /\ parsed = NoParse

Convert ==
  /\ ~parsed.done
  /\ parsed' = fromRangeToMilliSeconds(timeRange)
  /\ UNCHANGED <<id, last_updated, synced, prev, op, env, result, timeRange>>

NextParse == Convert

SpecParse == InitParse /\ [][NextParse]_vars

(***************************************************************************)
(* Properties of the lifecycle functions.  Each reads the state after a    *)
(* call: prev holds the fields on entry, Resp what sendRequest returned.   *)
(***************************************************************************)
Returns(o) == op = o /\ ~Resp.panic

\* A body holding a numeric lastUpdated / a string id and a numeric lastUpdated.
HasLastUpdated(body) == body.json = "object" /\ body.luf.kind = "number"
HasIdAndLastUpdated(body) == HasLastUpdated(body) /\ body.idf.kind = "string"

Unchanged == D = prev

\* C1: resourceRead on HTTP 200 with a valid body: a remote lastUpdated above
\* local last_updated + OFFSET sets synced to false and last_updated to the
\* remote value; at or below it, synced and last_updated stay as they were;
\* the identifier is never changed.
C1_ReadDriftDetection ==
  (Returns("Read") /\ Resp.status = 200 /\ HasLastUpdated(Resp.body)) =>
    /\ id = prev.id
    /\ IF Resp.body.luf.num > prev.last_updated + 10000
         THEN synced = FALSE /\ last_updated = Resp.body.luf.num
         ELSE synced = prev.synced /\ last_updated = prev.last_updated

C1_Witness ==
  /\ Returns("Read") /\ Resp.status = 200 /\ HasLastUpdated(Resp.body)
  /\ Resp.body.luf.num = prev.last_updated + OFFSET + 1
  /\ prev.synced /\ ~synced
  /\ last_updated = prev.last_updated + OFFSET + 1
  /\ result = "nil"

\* C2: resourceRead on any status other than 200: a body holding "Resource
\* not found" clears the identifier and returns no error, synced and
\* last_updated staying as they were; any other body returns an
\* UpstreamError and leaves the identifier.
C2_ReadNon200 ==
  (Returns("Read") /\ Resp.status # 200) =>
    IF Resp.body.notFound
      THEN /\ id = "" /\ result = "nil"
           /\ synced = prev.synced /\ last_updated = prev.last_updated
      ELSE result = "UpstreamError" /\ id = prev.id

C2_Witness ==
  /\ Returns("Read") /\ Resp.status = 500 /\ Resp.body.notFound
  /\ prev.id # "" /\ id = "" /\ result = "nil"

\* C3: resourceDelete: with no transport error, a status below 400 or equal
\* to 404 clears the identifier and returns no error, any other status
\* returns an UpstreamError and leaves the identifier; a transport error
\* returns an error and leaves the identifier whatever the status.
C3_DeleteStatus ==
  Returns("Delete") =>
    IF Resp.err
      THEN result = "TransportError" /\ id = prev.id
    ELSE IF Resp.status < 400 \/ Resp.status = 404
      THEN id = "" /\ result = "nil"
    ELSE result = "UpstreamError" /\ id = prev.id

C3_Witness ==
  /\ Returns("Delete") /\ ~Resp.err /\ Resp.status = 404
  /\ prev.id # "" /\ id = "" /\ result = "nil"

\* C4: resourceCreate on HTTP 200 with a body holding id and lastUpdated sets
\* the identifier and last_updated from the response and synced to true; on
\* every other status (the sentinel -1 included) it returns an error and
\* changes none of the three fields.
C4_CreateEffect ==
  Returns("Create") =>
    /\ (Resp.status = 200 /\ HasIdAndLastUpdated(Resp.body)) =>
         /\ id = Resp.body.idf.str
         /\ last_updated = Resp.body.luf.num
         /\ synced = TRUE
         /\ result = "nil"
    /\ Resp.status # 200 =>
         /\ result \in {"UpstreamError", "TransportError", "DecodeError"}
         /\ Unchanged

C4_Witness ==
  /\ Returns("Create") /\ Resp.status = 200 /\ HasIdAndLastUpdated(Resp.body)
  /\ prev.id = "" /\ id = Resp.body.idf.str /\ id # ""
  /\ ~prev.synced /\ synced
  /\ last_updated # prev.last_updated
  /\ result = "nil"

\* C5: resourceCreate on HTTP 200 with a body that is no valid JSON, or that
\* lacks a string id or a numeric lastUpdated, returns a DecodeError (and
\* does not crash).
C5_CreateDecodeError ==
  (op = "Create" /\ Resp.status = 200 /\ ~HasIdAndLastUpdated(Resp.body)) =>
    result = "DecodeError"

\* C6: resourceUpdate on HTTP 200 with a valid body sets synced to true and
\* last_updated from the response and leaves the identifier; on every other
\* status it returns an UpstreamError and changes none of the three fields.
C6_UpdateEffect ==
  Returns("Update") =>
    /\ (Resp.status = 200 /\ HasLastUpdated(Resp.body)) =>
         /\ synced = TRUE
         /\ last_updated = Resp.body.luf.num
         /\ id = prev.id
         /\ result = "nil"
    /\ Resp.status # 200 => (result = "UpstreamError" /\ Unchanged)

C6_Witness ==
  /\ Returns("Update") /\ Resp.status = 200 /\ HasLastUpdated(Resp.body)
  /\ Resp.body.idf.kind = "string" /\ Resp.body.idf.str # prev.id
  /\ ~prev.synced /\ synced
  /\ last_updated # prev.last_updated
  /\ id = prev.id /\ result = "nil"

\* C9: sendRequest returns status -1, no body and an error for every
\* network-level failure, whether the request could not be built or could
\* not be sent; a failure to read the body returns the response's status
\* code, no body and an error.
C9_SendRequestFailures ==
  op # "none" =>
    /\ (~env.urlOK \/ env.send = "fail") => Resp = Returned(-1, NilBody, TRUE)
    /\ (env.urlOK /\ env.send = "ok" /\ env.read = "fail") =>
         Resp = Returned(env.status, NilBody, TRUE)

\* C10: synced goes from false to true only in a call of resourceCreate or
\* resourceUpdate that received HTTP 200 with a valid body (so once a Read
\* has cleared it, it stays false through every Read, every Delete and every
\* failed Create or Update); resourceRead never sets synced to true and
\* never lowers last_updated.
C10_SyncedLifecycle ==
  /\ (~prev.synced /\ synced) =>
       \/ Returns("Create") /\ Resp.status = 200 /\ HasIdAndLastUpdated(Resp.body)
       \/ Returns("Update") /\ Resp.status = 200 /\ HasLastUpdated(Resp.body)
  /\ op = "Read" =>
       /\ ~(~prev.synced /\ synced)
       /\ last_updated >= prev.last_updated

(***************************************************************************)
(* Properties of fromRangeToMilliSeconds.                                  *)
(***************************************************************************)
\* A string of the shape -<digits><unit>, the unit being any one letter.
IsRangeShape(s) ==
  /\ Len(s) >= 3
  /\ s[1] = "-"
  /\ \A i \in 2..(Len(s) - 1) : s[i] \in Digits
  /\ s[Len(s)] \in Alphabet \ (Digits \cup {"-"})

Magnitude(s) == DecimalValue(SubSeq(s, 2, Len(s) - 1))
UnitOf(s) == s[Len(s)]

\* n times the multiplier of the table m, h, d, w, in thousands.
TableMs(n, u) ==
  CASE u = "m" -> [k |-> n * 60, u |-> 0]
    [] u = "h" -> [k |-> n * 3600, u |-> 0]
    [] u = "d" -> [k |-> n * 86400, u |-> 0]
    [] u = "w" -> [k |-> n * 604800, u |-> 0]
    [] OTHER   -> [k |-> n \div 1000, u |-> n % 1000]

\* C7: on a string the pattern does not match at all, fromRangeToMilliSeconds
\* returns a parse error and does not crash.
C7_NoMatchIsError ==
  (parsed.done /\ \A i \in 1..Len(timeRange) : ~MatchesAt(timeRange, i)) =>
    (parsed.err /\ ~parsed.panic)

====
